---- MODULE Spec2Model ----
(***************************************************************************)
(* Model of the Frigidaire Home Assistant integration:                     *)
(*   custom_components/frigidaire/humidifier.py  (FrigidaireDehumidifier)  *)
(*   custom_components/frigidaire/__init__.py    (config-entry lifecycle)  *)
(*                                                                         *)
(* The vendor client is an opaque dependency.  Its get_appliance_details   *)
(* either raises FrigidaireException or returns a details dictionary, and  *)
(* its execute_action is recorded in the sequence `calls`.                 *)
(***************************************************************************)
EXTENDS Integers, Sequences, FiniteSets, TLC

(***************************************************************************)
(* Bounds of the model.                                                    *)
(***************************************************************************)
MaxHumidity == 100
MaxFailRun == 3
MaxClients == 3

(***************************************************************************)
(* Python values.  None and a missing dictionary key are both the empty    *)
(* sequence; an Optional[Dict] is <<>> or <<dict>>, an Optional[int] is    *)
(* <<>> or <<n>>.  dict.get of a missing key returns None, modelled by the *)
(* field value Absent.                                                     *)
(***************************************************************************)
None == <<>>
Absent == "None"

\* homeassistant.components.humidifier.const
MODE_NORMAL == "normal"
MODE_BOOST == "boost"
MODE_SLEEP == "sleep"
MODE_AUTO == "auto"

FAN_LOW == "low"
FAN_MEDIUM == "medium"
FAN_HIGH == "high"

\* Modes a caller may pass to set_mode: the four supported ones and others
\* of the host platform that are not in the mapping.
ModeInputs == {MODE_NORMAL, MODE_BOOST, MODE_SLEEP, MODE_AUTO, "eco", "away", ""}
FanModeInputs == {FAN_LOW, FAN_MEDIUM, FAN_HIGH, "auto", "off", ""}
HumidityInputs == {None} \cup {<<h>> : h \in 0..MaxHumidity}

(***************************************************************************)
(* Dictionaries.  A dict literal is the sequence of its items in insertion *)
(* order; a later item with the same key overwrites an earlier one.        *)
(***************************************************************************)
Keys(items) == {items[i][1] : i \in 1..Len(items)}

Lookup(items, k) ==
    LET idx == {i \in 1..Len(items) : items[i][1] = k}
        last == CHOOSE i \in idx : \A j \in idx : j <= i
    IN  items[last][2]

DictOf(items) == [k \in Keys(items) |-> Lookup(items, k)]

\* {v: k for k, v in d.items()}
InvertItems(items) == [i \in 1..Len(items) |-> <<items[i][2], items[i][1]>>]

FRIGIDAIRE_TO_HA_MODE_typo ==
    << <<"DRY", MODE_NORMAL>>, <<"CONTINUOUS", MODE_BOOST>>,
       <<"QUIET", MODE_NORMAL>>, <<"AUTO", MODE_AUTO>> >>

FRIGIDAIRE_TO_HA_MODE_items ==
    << <<"DRY", MODE_NORMAL>>, <<"CONTINUOUS", MODE_BOOST>>,
       <<"QUIET", MODE_SLEEP>>, <<"AUTO", MODE_AUTO>> >>

FRIGIDAIRE_TO_HA_MODE == DictOf(FRIGIDAIRE_TO_HA_MODE_items)

HA_TO_FRIGIDAIRE_MODE == DictOf(InvertItems(FRIGIDAIRE_TO_HA_MODE_items))

FRIGIDAIRE_TO_HA_FAN_MODE_items ==
    << <<"LOW", FAN_LOW>>, <<"MEDIUM", FAN_MEDIUM>>, <<"HIGH", FAN_HIGH>> >>

FRIGIDAIRE_TO_HA_FAN_MODE == DictOf(FRIGIDAIRE_TO_HA_FAN_MODE_items)

HA_TO_FRIGIDAIRE_FAN_MODE == DictOf(InvertItems(FRIGIDAIRE_TO_HA_FAN_MODE_items))

(***************************************************************************)
(* Details dictionaries the client can return.  Only the keys the entity   *)
(* reads in update and in the commands are kept.  "OTHER" stands for any   *)
(* vendor appliance state that is neither OFF nor RUNNING.                 *)
(***************************************************************************)
ApplianceStates == {"OFF", "RUNNING", "OTHER", Absent}
ConnectivityStates == {"connected", "disconnected", Absent}
Details == [applianceState : ApplianceStates, connectivityState : ConnectivityStates]

\* Result of client.get_appliance_details: raised, or the returned dict.
PollResults == {[raised |-> TRUE, details |-> None]}
               \cup {[raised |-> FALSE, details |-> <<d>>] : d \in Details}

\* frigidaire.Action.*: an action name with its enum or numeric argument.
Action_set_power(p) == [name |-> "set_power", enum |-> p, number |-> 0]
Action_set_mode(m) == [name |-> "set_mode", enum |-> m, number |-> 0]
Action_set_fan_speed(f) == [name |-> "set_fan_speed", enum |-> f, number |-> 0]
Action_set_humidity(h) == [name |-> "set_humidity", enum |-> "", number |-> h]

LOG_FAILED == "Failed to connect to Frigidaire servers"

VARIABLES
    _details,        \* self._details: None or <<dict>>
    _attr_available, \* self._attr_available, read through self.available
    op,              \* the last call on the entity: name, arguments, exception
    calls,           \* client.execute_action calls made by the last call
    logged,          \* _LOGGER.error lines written by the last call
    lastPoll,        \* history: details returned by the last successful poll
    updated,         \* history: some update call has completed
    failRun,         \* history: length of the current run of failed updates
    failRunLogs,     \* history: errors logged during the current run
    hassData,        \* hass.data[DOMAIN]: entry_id -> None or <<client>>
    domainSet,       \* DOMAIN is a key of hass.data
    nextClient,      \* number of frigidaire.Frigidaire objects constructed
    entryOp,         \* the last lifecycle call: name, entry, outcome, result
    holder,          \* history: a setup stored a client, no unload popped since
    recentOk         \* history: the most recent setup constructed its client
                     \*          and no later platform unload succeeded

entityVars == <<_details, _attr_available, op, calls, logged, lastPoll,
                updated, failRun, failRunLogs>>
entryVars == <<hassData, domainSet, nextClient, entryOp, holder, recentOk>>
vars == <<entityVars, entryVars>>

\* A call on the entity: method, string argument (or, for update, what the
\* client did), Optional[int] argument, exception raised to the caller.
Op(method, arg, optInt, raises) ==
    [name |-> method, text |-> arg, num |-> optInt, exc |-> raises]

(***************************************************************************)
(* FrigidaireDehumidifier                                                  *)
(***************************************************************************)

\* dict.get on self._details; the caller has checked _details is not None.
Get(details, key) == Head(details)[key]

\* property is_on
is_on(details) == Get(details, "applianceState") = "RUNNING"

\* turn_on / turn_off
turn_on_calls == <<Action_set_power("ON")>>
turn_off_calls == <<Action_set_power("OFF")>>

\* set_fan_mode
set_fan_mode_calls(fan_mode) ==
    IF fan_mode \notin DOMAIN HA_TO_FRIGIDAIRE_FAN_MODE
    THEN <<>>
    ELSE <<Action_set_fan_speed(HA_TO_FRIGIDAIRE_FAN_MODE[fan_mode])>>

\* set_mode raises AttributeError when it reaches self._details.get with
\* _details still None.
set_mode_raises(details, mode) ==
    IF mode \notin DOMAIN HA_TO_FRIGIDAIRE_MODE THEN ""
    ELSE IF details = None THEN "AttributeError"
    ELSE ""

\* Without the membership guard the lookup HA_TO_FRIGIDAIRE_MODE[mode] raises
\* KeyError only after the power-on has been sent.
set_mode_calls_unguarded(details, mode) ==
    IF details = None THEN <<>>
    ELSE (IF Get(details, "applianceState") = "OFF" THEN turn_on_calls ELSE <<>>)
         \o (IF mode \in DOMAIN HA_TO_FRIGIDAIRE_MODE
             THEN <<Action_set_mode(HA_TO_FRIGIDAIRE_MODE[mode])>> ELSE <<>>)

set_mode_calls(details, mode) ==
    IF mode \notin DOMAIN HA_TO_FRIGIDAIRE_MODE THEN <<>>
    ELSE IF details = None THEN <<>>
    ELSE (IF Get(details, "applianceState") = "OFF" THEN turn_on_calls ELSE <<>>)
         \o <<Action_set_mode(HA_TO_FRIGIDAIRE_MODE[mode])>>

\* Python 3 round() of the true quotient n / 5: to the nearest integer,
\* ties to the even one.
RoundDiv5(n) ==
    LET q == n \div 5
        r == n % 5
    IN  IF 2 * r < 5 THEN q
        ELSE IF 2 * r > 5 THEN q + 1
        ELSE IF q % 2 = 0 THEN q ELSE q + 1

round5_truncating(h) == 5 * (h \div 5)

round5(h) == 5 * RoundDiv5(h)

\* set_humidity
set_humidity_raises(details, humidity) ==
    IF humidity = None THEN "" ELSE set_mode_raises(details, MODE_NORMAL)

set_humidity_calls_target_first(details, humidity) ==
    IF humidity = None THEN <<>>
    ELSE IF set_mode_raises(details, MODE_NORMAL) # "" THEN <<>>
    ELSE <<Action_set_humidity(round5(Head(humidity)))>>
         \o set_mode_calls(details, MODE_NORMAL)

set_humidity_calls(details, humidity) ==
    IF humidity = None THEN <<>>
    ELSE IF set_mode_raises(details, MODE_NORMAL) # "" THEN <<>>
    ELSE set_mode_calls(details, MODE_NORMAL)
         \o <<Action_set_humidity(round5(Head(humidity)))>>

\* update: the try body, the except branch and the else branch.
update_details_cleared(details, res) ==
    IF res.raised THEN None ELSE res.details

update_details(details, res) ==
    IF res.raised THEN details ELSE res.details

update_available_sticky(available, newDetails, res) ==
    IF res.raised THEN FALSE
    ELSE available /\ Get(newDetails, "connectivityState") = "connected"

update_available_kept(available, newDetails, res) ==
    IF res.raised THEN available
    ELSE Get(newDetails, "connectivityState") = "connected"

update_available(available, newDetails, res) ==
    IF res.raised THEN FALSE
    ELSE Get(newDetails, "connectivityState") = "connected"

update_logged_always(available, res) ==
    IF res.raised THEN <<LOG_FAILED>> ELSE <<>>

update_logged(available, res) ==
    IF res.raised /\ available THEN <<LOG_FAILED>> ELSE <<>>

Command(o, cs) ==
    /\ op' = o
    /\ calls' = cs
    /\ logged' = <<>>
    /\ UNCHANGED <<_details, _attr_available, lastPoll, updated, failRun,
                   failRunLogs>>
    /\ UNCHANGED entryVars

turn_on == Command(Op("turn_on", "", None, ""), turn_on_calls)

turn_off == Command(Op("turn_off", "", None, ""), turn_off_calls)

set_humidity(humidity) ==
    Command(Op("set_humidity", "", humidity, set_humidity_raises(_details, humidity)),
            set_humidity_calls(_details, humidity))

set_fan_mode(fan_mode) ==
    Command(Op("set_fan_mode", fan_mode, None, ""), set_fan_mode_calls(fan_mode))

set_mode(mode) ==
    Command(Op("set_mode", mode, None, set_mode_raises(_details, mode)),
            set_mode_calls(_details, mode))

update(res) ==
    LET details == update_details(_details, res)
        log == update_logged(_attr_available, res)
    IN  /\ res.raised => failRun < MaxFailRun
        /\ _details' = details
        /\ _attr_available' = update_available(_attr_available, details, res)
        /\ logged' = log
        /\ op' = Op("update", IF res.raised THEN "raised" ELSE "returned", None, "")
        /\ calls' = <<>>
        /\ lastPoll' = IF res.raised THEN lastPoll ELSE res.details
        /\ updated' = TRUE
        /\ failRun' = IF res.raised THEN failRun + 1 ELSE 0
        /\ failRunLogs' = IF res.raised THEN failRunLogs + Len(log) ELSE 0
        /\ UNCHANGED entryVars

(***************************************************************************)
(* Config-entry lifecycle                                                  *)
(***************************************************************************)
Entries == {"entry1", "entry2"}

\* What constructing frigidaire.Frigidaire(username, password) does.
SetupOutcomes == {"ok", "ConnectionError", "FrigidaireException cas_3403",
                  "FrigidaireException"}

EntryOp(function, e, constructed, res, fwd) ==
    [name |-> function, entry |-> e, outcome |-> constructed, result |-> res,
     forwards |-> fwd]

\* setup(): the assignment to hass.data[DOMAIN][entry.entry_id]
setup_data(data, entry, outcome, client) ==
    IF outcome = "ok" THEN [data EXCEPT ![entry] = <<client>>] ELSE data

\* setup(): what async_setup_entry returns or raises
setup_result(outcome) ==
    IF outcome = "ok" THEN "True"
    ELSE IF outcome = "ConnectionError" THEN "ConfigEntryNotReady"
    ELSE IF outcome = "FrigidaireException cas_3403" THEN "AbortFlow sessions"
    ELSE "AbortFlow backend"

async_setup_entry(entry, outcome) ==
    /\ outcome = "ok" => nextClient < MaxClients
    /\ domainSet' = TRUE
    /\ hassData' = setup_data(hassData, entry, outcome, nextClient + 1)
    /\ nextClient' = IF outcome = "ok" THEN nextClient + 1 ELSE nextClient
    /\ entryOp' = EntryOp("async_setup_entry", entry, outcome,
                          setup_result(outcome), outcome = "ok")
    /\ holder' = IF outcome = "ok" THEN [holder EXCEPT ![entry] = TRUE] ELSE holder
    /\ recentOk' = [recentOk EXCEPT ![entry] = (outcome = "ok")]
    /\ UNCHANGED entityVars

\* async_unload_entry: hass.data[DOMAIN].pop(entry.entry_id) raises KeyError
\* when DOMAIN or the entry is missing.
unload_raises(data, hasDomain, entry, unload_ok) ==
    IF unload_ok /\ (~hasDomain \/ data[entry] = None) THEN "KeyError" ELSE ""

unload_data_always(data, entry, unload_ok) ==
    [data EXCEPT ![entry] = None]

unload_data(data, entry, unload_ok) ==
    IF unload_ok THEN [data EXCEPT ![entry] = None] ELSE data

async_unload_entry(entry, unload_ok) ==
    LET exc == unload_raises(hassData, domainSet, entry, unload_ok)
    IN  /\ hassData' = unload_data(hassData, entry, unload_ok)
        /\ entryOp' = EntryOp("async_unload_entry", entry,
                              IF unload_ok THEN "unload_ok" ELSE "unload_failed",
                              IF exc # "" THEN exc
                              ELSE IF unload_ok THEN "True" ELSE "False",
                              FALSE)
        /\ holder' = IF unload_ok THEN [holder EXCEPT ![entry] = FALSE] ELSE holder
        /\ recentOk' = IF unload_ok THEN [recentOk EXCEPT ![entry] = FALSE]
                       ELSE recentOk
        /\ UNCHANGED <<domainSet, nextClient>>
        /\ UNCHANGED entityVars

(***************************************************************************)
(* Specifications                                                          *)
(***************************************************************************)
\* The entity after __init__ (which leaves _attr_available at the host
\* Entity class's default, True) and hass.data before any setup.
Init ==
    /\ _details = None
    /\ _attr_available = TRUE
    /\ op = Op("__init__", "", None, "")
    /\ calls = <<>>
    /\ logged = <<>>
    /\ lastPoll = None
    /\ updated = FALSE
    /\ failRun = 0
    /\ failRunLogs = 0
    /\ hassData = [e \in Entries |-> None]
    /\ domainSet = FALSE
    /\ nextClient = 0
    /\ entryOp = EntryOp("", "", "", "", FALSE)
    /\ holder = [e \in Entries |-> FALSE]
    /\ recentOk = [e \in Entries |-> FALSE]

Next ==
    \/ turn_on
    \/ turn_off
    \/ \E humidity \in HumidityInputs : set_humidity(humidity)
    \/ \E fan_mode \in FanModeInputs : set_fan_mode(fan_mode)
    \/ \E mode \in ModeInputs : set_mode(mode)
    \/ \E res \in PollResults : update(res)

Spec == Init /\ [][Next]_vars

NextEntry ==
    \/ \E entry \in Entries, outcome \in SetupOutcomes :
          async_setup_entry(entry, outcome)
    \/ \E entry \in Entries, unload_ok \in BOOLEAN :
          async_unload_entry(entry, unload_ok)

SpecEntry == Init /\ [][NextEntry]_vars

(***************************************************************************)
(* Properties                                                              *)
(***************************************************************************)
CommandNames == {"turn_on", "turn_off", "set_humidity", "set_mode", "set_fan_mode"}

FailedUpdate == op'.name = "update" /\ op'.text = "raised"
SuccessfulUpdate == op'.name = "update" /\ op'.text = "returned"

Abs(n) == IF n < 0 THEN -n ELSE n

\* C1: an update whose client call raises FrigidaireException leaves the
\* entity unavailable and _details exactly as it was before the call (the
\* previous successful poll's details, or None), whatever came before.
C1_FailedUpdateKeepsDetails ==
    [][FailedUpdate =>
        /\ _attr_available' = FALSE
        /\ _details' = _details
        /\ _details' = lastPoll']_vars

C1_Witness ==
    /\ op.name = "update" /\ op.text = "raised"
    /\ failRun >= 2
    /\ _details # None
    /\ ~_attr_available

\* C2: set_mode with a mode outside HA_TO_FRIGIDAIRE_MODE and set_fan_mode
\* with a fan mode outside HA_TO_FRIGIDAIRE_FAN_MODE return without any
\* client.execute_action call, in every entity state.
C2_UnmappedInputsAreNoOps ==
    /\ (op.name = "set_mode" /\ op.text \notin DOMAIN HA_TO_FRIGIDAIRE_MODE)
          => (calls = <<>> /\ op.exc = "")
    /\ (op.name = "set_fan_mode" /\ op.text \notin DOMAIN HA_TO_FRIGIDAIRE_FAN_MODE)
          => (calls = <<>> /\ op.exc = "")

C2_Witness ==
    /\ op.name = "set_mode" /\ op.text = "eco"
    /\ _details # None
    /\ Get(_details, "applianceState") = "OFF"
    /\ calls = <<>>

\* C3: the value set_humidity passes to the client's set_humidity action is
\* a multiple of 5 at distance at most 2 from the input, the input itself
\* when that is a multiple of 5; set_humidity(None) makes no client call.
C3_HumidityRoundedToStepOf5 ==
    op.name = "set_humidity" =>
        /\ op.num = None => calls = <<>>
        /\ (op.num # None /\ op.exc = "") =>
              \E i \in 1..Len(calls) : calls[i].name = "set_humidity"
        /\ \A i \in 1..Len(calls) :
              calls[i].name = "set_humidity" =>
                 /\ op.num # None
                 /\ calls[i].number % 5 = 0
                 /\ Abs(calls[i].number - Head(op.num)) <= 2
                 /\ (Head(op.num) % 5 = 0 => calls[i].number = Head(op.num))

C3_Witness ==
    /\ op.name = "set_humidity"
    /\ op.num = <<43>>
    /\ calls # <<>>
    /\ calls[Len(calls)] = Action_set_humidity(45)

\* C4: every vendor mode of FRIGIDAIRE_TO_HA_MODE and every fan speed of
\* FRIGIDAIRE_TO_HA_FAN_MODE maps back to itself through the inverse
\* dictionary, and the inverse dictionaries have as many entries as the
\* forward ones; so the vendor mode set_mode sends maps to the mode asked.
C4_MappingsRoundTrip ==
    /\ DOMAIN FRIGIDAIRE_TO_HA_MODE = {"DRY", "CONTINUOUS", "QUIET", "AUTO"}
    /\ \A m \in DOMAIN FRIGIDAIRE_TO_HA_MODE :
          /\ FRIGIDAIRE_TO_HA_MODE[m] \in DOMAIN HA_TO_FRIGIDAIRE_MODE
          /\ HA_TO_FRIGIDAIRE_MODE[FRIGIDAIRE_TO_HA_MODE[m]] = m
    /\ Cardinality(DOMAIN HA_TO_FRIGIDAIRE_MODE)
          = Cardinality(DOMAIN FRIGIDAIRE_TO_HA_MODE)
    /\ DOMAIN FRIGIDAIRE_TO_HA_FAN_MODE = {"LOW", "MEDIUM", "HIGH"}
    /\ \A f \in DOMAIN FRIGIDAIRE_TO_HA_FAN_MODE :
          /\ FRIGIDAIRE_TO_HA_FAN_MODE[f] \in DOMAIN HA_TO_FRIGIDAIRE_FAN_MODE
          /\ HA_TO_FRIGIDAIRE_FAN_MODE[FRIGIDAIRE_TO_HA_FAN_MODE[f]] = f
    /\ Cardinality(DOMAIN HA_TO_FRIGIDAIRE_FAN_MODE)
          = Cardinality(DOMAIN FRIGIDAIRE_TO_HA_FAN_MODE)
    /\ (op.name = "set_mode" /\ calls # <<>>) =>
          FRIGIDAIRE_TO_HA_MODE[calls[Len(calls)].enum] = op.text
    /\ (op.name = "set_fan_mode" /\ calls # <<>>) =>
          FRIGIDAIRE_TO_HA_FAN_MODE[calls[Len(calls)].enum] = op.text

C4_Witness ==
    /\ op.name = "set_mode" /\ op.text = MODE_SLEEP
    /\ calls # <<>>
    /\ calls[Len(calls)] = Action_set_mode("QUIET")
    /\ FRIGIDAIRE_TO_HA_MODE["QUIET"] = MODE_SLEEP

C6_TurnsOnUnlessRunning ==
    (op.name = "set_mode" /\ op.text \in DOMAIN HA_TO_FRIGIDAIRE_MODE
        /\ _details # None) =>
        IF is_on(_details)
        THEN calls = <<Action_set_mode(HA_TO_FRIGIDAIRE_MODE[op.text])>>
        ELSE calls = <<Action_set_power("ON"),
                       Action_set_mode(HA_TO_FRIGIDAIRE_MODE[op.text])>>

\* C7: an update whose client call returns replaces _details by the returned
\* details and makes the entity available exactly when their
\* connectivityState is "connected", whatever the state before the call.
C7_SuccessfulUpdate ==
    [][SuccessfulUpdate =>
        /\ _details' = lastPoll'
        /\ _details' # None
        /\ _attr_available' = (Get(lastPoll', "connectivityState") = "connected")]_vars

C7_Witness ==
    /\ op.name = "update" /\ op.text = "returned"
    /\ _attr_available
    /\ Get(_details, "connectivityState") = "connected"

\* C8 as stated: hass.data[DOMAIN] holds a client for an entry exactly when
\* the most recent setup of the entry constructed its client and no later
\* platform unload succeeded.
C8_HoldsIffMostRecentSetupOk ==
    \A e \in Entries : (hassData[e] # None) <=> recentOk[e]

SetupFailed ==
    entryOp'.name = "async_setup_entry" /\ entryOp'.outcome # "ok"
UnloadFailed ==
    entryOp'.name = "async_unload_entry" /\ entryOp'.outcome = "unload_failed"

\* C8 amended: hass.data[DOMAIN] holds a client for an entry exactly when
\* some setup of the entry constructed its client and no later platform
\* unload succeeded; a setup whose construction raises leaves hass.data as
\* it was, raises ConfigEntryNotReady or AbortFlow and does not forward the
\* entry; an unload whose platform unload fails leaves hass.data as it was
\* and returns false.
C8_HoldsIffSomeSetupOk ==
    /\ [](\A e \in Entries : (hassData[e] # None) <=> holder[e])
    /\ [][SetupFailed =>
            /\ hassData' = hassData
            /\ ~entryOp'.forwards
            /\ entryOp'.result =
                  (IF entryOp'.outcome = "ConnectionError"
                   THEN "ConfigEntryNotReady"
                   ELSE IF entryOp'.outcome = "FrigidaireException cas_3403"
                   THEN "AbortFlow sessions" ELSE "AbortFlow backend")]_vars
    /\ [][UnloadFailed =>
            /\ hassData' = hassData
            /\ entryOp'.result = "False"]_vars

C8_Witness ==
    /\ entryOp.name = "async_setup_entry"
    /\ entryOp.outcome = "ConnectionError"
    /\ hassData[entryOp.entry] # None
    /\ ~recentOk[entryOp.entry]

\* C9: a failed update logs the connection error only if the entity was
\* available immediately before it, so a run of consecutive failed updates
\* logs the error at most once.
C9_LogOnlyOnTransition ==
    /\ [][logged' # <<>> =>
            /\ FailedUpdate
            /\ logged' = <<LOG_FAILED>>
            /\ _attr_available
            /\ ~_attr_available']_vars
    /\ [](failRunLogs <= 1)

C9_Witness ==
    /\ failRun >= 2
    /\ failRunLogs = 1
    /\ op.name = "update" /\ op.text = "raised"
    /\ logged = <<>>

\* C10: once an update has completed, an available entity has details, and
\* they are those of the most recent successful poll; the commands change
\* neither _details nor the availability.
C10_AvailableImpliesDetails ==
    /\ [](updated => (_attr_available =>
                        (_details # None /\ _details = lastPoll)))
    /\ [][op'.name \in CommandNames =>
            /\ _details' = _details
            /\ _attr_available' = _attr_available]_vars

C10_Witness ==
    /\ updated
    /\ _attr_available
    /\ _details # None
    /\ op.name = "set_humidity"
    /\ calls # <<>>

====
